---- MODULE Spec2Model ----
(***************************************************************************)
(* Model of the file-backup pipeline of jdollar/file-backup:               *)
(*   - the chunk planner (files.ChunkFile and the planner loop inlined in  *)
(*     box.Client.chunkedUpload), read through a bufio.Reader;             *)
(*   - box.Client.Upload with its single-shot and chunked paths, the       *)
(*     part-upload goroutines and the fan-in channel;                      *)
(*   - the retention steps (commands.fileSystemCleanup and the prune at    *)
(*     the end of commands.exportToBox);                                   *)
(*   - the run of commands.boxCommandAction;                               *)
(*   - the archive builder (commands.createArchive, addFilesToArchive);    *)
(*   - the request methods of box.Client around handleResponse.            *)
(* Sizes are counted in model units: the byte counts of the source (the    *)
(* 20*1024 threshold, bufio's 4096 byte buffer, the listing page of 999)   *)
(* are scaled down, keeping their order relations.                         *)
(***************************************************************************)
EXTENDS Integers, Sequences, FiniteSets, TLC

\* ------------------------------------------------------------------ bounds
MaxSize == 5
MaxPart == 3
BufSize == 3

Byte == {0, 1}

Min(a, b) == IF a < b THEN a ELSE b
Max(a, b) == IF a > b THEN a ELSE b

RECURSIVE SeqsUpTo(_)
SeqsUpTo(n) ==
  IF n = 0 THEN {<<>>}
  ELSE LET S == SeqsUpTo(n - 1)
       IN S \cup {Append(s, b) : s \in {t \in S : Len(t) = n - 1}, b \in Byte}

VARIABLES
  osShort,    \* whether reads of the file may return fewer bytes than asked for
  planner,    \* which copy of the planner runs: "ChunkFile" or "chunkedUpload"
  file,       \* the archive's bytes on disk
  partSize,   \* ChunkFile's partSize / createUploadSessionResponse.PartSize
  filePos,    \* read offset of the *os.File under the bufio.Reader
  rdBuf,      \* bytes the bufio.Reader holds and has not delivered (b.buf[b.r:b.w])
  mem,        \* byte arrays: mem[0] is buf's backing array, mem[k] the k-th made
  nBytes,     \* nBytes of the planner loop
  parts,      \* the planner's parts
  planPc,     \* "idle", "read" (in the loop), "done" (returned parts), "failed"
  upPc,       \* where Upload / singleUpload / chunkedUpload stands
  upRet,      \* what Upload returned: "none" (not yet), "nil", "err"
  path,       \* the paths Upload took: subset of {"single", "chunked"}
  sent,       \* the requests sent, by kind
  commitReq,  \* the commit request sent: its parts and digest, NoCommit for none
  task,       \* task[t]: where the goroutine of part t stands
  got,        \* got[t]: uploadPartResponse.Part of goroutine t
  snap,       \* snap[t]: uploadedParts as goroutine t read it in its append
  uploadedParts,
  recvd,      \* i of the collecting loop
  errored,    \* the goroutines that have an error to report
  crashed,    \* the process died of a panic
  conf,       \* config.Configuration: Box fields and BackupLimit
  now,        \* currentTimeUnix of the run
  localDir,   \* the archives in the output directory, by their timestamp
  remote,     \* the files in the remote backup folder, by their timestamp
  outFile,    \* the run's archive at outputPath: "absent", "partial", "complete"
  runPc,      \* where boxCommandAction / exportToBox stands
  runRet,     \* how the run ended: "none", "nil", "err", "validation", "fatal",
              \* "panic"
  disk,       \* the disk operations of the run, in order
  net,        \* the remote requests of the run, in order
  uploadRet,  \* what client.Upload returned in the run: "none", "nil", "err"
  lastPrune,  \* the last prune run: store, entries before, deleted, ok, again
  prevOk,     \* per store: the last prune completed and nothing was added since
  sessionId,  \* createUploadSessionResponse.Id, "none" before the session exists
  addressed,  \* the session ids the part, status and commit requests were sent to
  lastPoll,   \* the last GetUploadSession: "none", "err", "equal", "unequal"
  digestErr,  \* whether re-reading the file for the commit digest failed
  inputs,     \* the files of the configuration: patterns with what they match
  stack,      \* the calls of addFilesToArchive in progress, innermost first
  tarStream,  \* what was written to the tar writer, in order
  fileOut,    \* what the gzip writer has written to the archive file
  archPc,     \* createArchive: "idle", "run", "unwind", "returned"
  archErr,    \* the error addFilesToArchive / createArchive returns, "nil" for none
  call        \* one call of a client method: op, pc, resp, ret

planVars == <<osShort, planner, file, partSize, filePos, rdBuf, mem, nBytes, parts, planPc>>

sessVars == <<sessionId, addressed, lastPoll, digestErr>>

upVars == <<upPc, upRet, path, sent, commitReq, task, got, snap, uploadedParts,
            recvd, errored, crashed, sessVars>>

runVars == <<conf, now, localDir, remote, outFile, runPc, runRet, disk, net,
             uploadRet, lastPrune, prevOk>>

archVars == <<inputs, stack, tarStream, fileOut, archPc, archErr>>

vars == <<planVars, upVars, runVars, archVars, call>>

BoxFields ==
  <<"backup_folder_name", "client_id", "client_secret", "subject_type", "subject_id">>

ValidBox == [f \in 1..Len(BoxFields) |-> "v"]

NoCommit == [parts |-> <<>>, digest |-> <<>>]

NoPrune == [store |-> "none", before |-> {}, deleted |-> {}, ok |-> TRUE, again |-> FALSE]

\* No run of the command is in progress.
RunIdle ==
  /\ conf = [Box |-> ValidBox, BackupLimit |-> 1]
  /\ now = 0
  /\ localDir = {}
  /\ remote = {}
  /\ outFile = "absent"
  /\ runPc = "idle"
  /\ runRet = "none"
  /\ disk = <<>>
  /\ net = <<>>
  /\ uploadRet = "none"
  /\ lastPrune = NoPrune
  /\ prevOk = [local |-> FALSE, remote |-> FALSE]

\* No Upload is running.
UpIdle ==
  /\ upPc = "idle"
  /\ upRet = "none"
  /\ path = {}
  /\ sent = [create |-> 0, put |-> {}, poll |-> 0, commit |-> 0, single |-> 0]
  /\ commitReq = NoCommit
  /\ task = <<>>
  /\ got = <<>>
  /\ snap = <<>>
  /\ uploadedParts = <<>>
  /\ recvd = 0
  /\ errored = {}
  /\ crashed = FALSE
  /\ sessionId = "none"
  /\ addressed = {}
  /\ lastPoll = "none"
  /\ digestErr = FALSE

\* createArchive is not running.
ArchIdle ==
  /\ inputs = <<>>
  /\ stack = <<>>
  /\ tarStream = <<>>
  /\ fileOut = [header |-> FALSE, flushed |-> 0, trailer |-> FALSE]
  /\ archPc = "idle"
  /\ archErr = "nil"

\* No client method is being called on its own.
NoResp == [status |-> 0, body |-> <<>>]

CallIdle == call = [op |-> "none", pc |-> "idle", resp |-> NoResp, ret |-> "none"]

\* ----------------------------------------------------------- chunk planner
\* crypto/sha1 as an injective tag of the bytes hashed, base64 as a tag of it.
Sha1(bytes) == <<"sha1", bytes>>
Base64(d) == <<"base64", d>>

Remaining == Len(file) - filePos

\* (*os.File).Read(p) with len(p) = want: some bytes, end of file, or an error.
FileRead(want) ==
  IF Remaining = 0
    THEN {[n |-> 0, err |-> "EOF"], [n |-> 0, err |-> "EIO"]}
    ELSE {[n |-> k, err |-> "nil"] :
            k \in (IF osShort THEN 1 ELSE Min(want, Remaining))..Min(want, Remaining)}
           \cup {[n |-> 0, err |-> "EIO"]}

\* (*bufio.Reader).Read(p) with len(p) = want: buffered bytes first; with an
\* empty buffer one read of the file, straight into p when p is at least as
\* large as the reader's buffer, into the reader's buffer otherwise.
BufioRead(want) ==
  IF rdBuf # <<>>
    THEN LET n == Min(want, Len(rdBuf))
         IN {[n |-> n, err |-> "nil", data |-> SubSeq(rdBuf, 1, n),
              rest |-> SubSeq(rdBuf, n + 1, Len(rdBuf)), pos |-> filePos]}
    ELSE IF want >= BufSize
      THEN {[n |-> r.n, err |-> r.err,
             data |-> SubSeq(file, filePos + 1, filePos + r.n),
             rest |-> <<>>, pos |-> filePos + r.n] : r \in FileRead(want)}
      ELSE {LET n == Min(want, r.n)
            IN [n |-> n, err |-> r.err,
                data |-> SubSeq(file, filePos + 1, filePos + n),
                rest |-> SubSeq(file, filePos + n + 1, filePos + r.n),
                pos |-> filePos + r.n] : r \in FileRead(BufSize)}

\* r.Read(buf[:cap(buf)]): the bytes read overwrite the front of the backing
\* array, the rest of it keeps what earlier reads left.
ReadInto(arr, data) ==
  [i \in 1..Len(arr) |-> IF i <= Len(data) THEN data[i] ELSE arr[i]]

PartEndOffByOne(begin, n) == begin + n
\* end := begin + int64(len(buf) - 1)
PartEnd(begin, n) == begin + n - 1

AllocDataShared(k) == 0
\* data := make([]byte, len(buf)): the k-th part gets an array of its own.
AllocData(k) == k

\* The digest field: raw in files.ChunkFile, base64 text in chunkedUpload.
PartDigest(bytes) ==
  IF planner = "ChunkFile" THEN Sha1(bytes) ELSE Base64(Sha1(bytes))

\* The bytes a slice [ptr, len] denotes.
Bytes(slice) == SubSeq(mem[slice.ptr], 1, slice.len)

\* One iteration of the planner's for loop.
ChunkStep ==
  /\ planPc = "read"
  /\ \E r \in BufioRead(partSize) :
       /\ rdBuf' = r.rest
       /\ filePos' = r.pos
       /\ IF r.n = 0
            THEN /\ planPc' = IF r.err = "nil" THEN "read"
                              ELSE IF r.err = "EOF" THEN "done" ELSE "failed"
                 /\ mem' = [mem EXCEPT ![0] = ReadInto(mem[0], r.data)]
                 /\ UNCHANGED <<nBytes, parts>>
            ELSE LET k == Len(parts) + 1
                     arr == ReadInto(mem[0], r.data)
                     addr == AllocData(k)
                     part == [Begin |-> nBytes,
                              End |-> PartEnd(nBytes, r.n),
                              Data |-> [ptr |-> addr, len |-> r.n],
                              Digest |-> PartDigest(SubSeq(arr, 1, r.n))]
                 IN /\ mem' = [[mem EXCEPT ![0] = arr]
                                 EXCEPT ![addr] = SubSeq(arr, 1, r.n)]
                    /\ parts' = Append(parts, part)
                    /\ nBytes' = nBytes + r.n
                    /\ planPc' = IF r.err # "nil" /\ r.err # "EOF"
                                   THEN "failed" ELSE "read"
  /\ UNCHANGED <<osShort, planner, file, partSize>>

\* The planner's variables at the start of its loop.
PlanStart ==
  /\ filePos = 0
  /\ rdBuf = <<>>
  /\ mem = [a \in 0..(MaxSize + 1) |->
             IF a = 0 THEN [i \in 1..partSize |-> 0] ELSE <<>>]
  /\ nBytes = 0
  /\ parts = <<>>

PlanInit ==
  /\ osShort \in BOOLEAN
  /\ planner \in {"ChunkFile", "chunkedUpload"}
  /\ file \in SeqsUpTo(MaxSize)
  /\ partSize \in 1..MaxPart
  /\ PlanStart
  /\ planPc = "read"
  /\ UpIdle
  /\ RunIdle
  /\ ArchIdle
  /\ CallIdle

\* ChunkFile called on its own.
ChunkFile ==
  /\ ChunkStep
  /\ UNCHANGED <<upVars, runVars, archVars, call>>

PlanNext == ChunkFile

SpecPlan == PlanInit /\ [][PlanNext]_vars

\* ------------------------------------------------- chunk planner: claims
\* The parts ordered by Begin (insertion sort on the Begin field).
RECURSIVE InsertByBegin(_, _)
InsertByBegin(p, ps) ==
  IF ps = <<>> THEN <<p>>
  ELSE IF p.Begin < Head(ps).Begin THEN <<p>> \o ps
  ELSE <<Head(ps)>> \o InsertByBegin(p, Tail(ps))

RECURSIVE ByBegin(_)
ByBegin(ps) ==
  IF ps = <<>> THEN <<>> ELSE InsertByBegin(Head(ps), ByBegin(Tail(ps)))

\* Concatenation of the parts' bytes, in the order given.
RECURSIVE Concat(_)
Concat(ps) ==
  IF ps = <<>> THEN <<>> ELSE Bytes(Head(ps).Data) \o Concat(Tail(ps))

CeilDiv(a, b) == (a + b - 1) \div b

\* C2: the parts produced so far, in production order, start at 0, each has
\* End = Begin + len(Data) - 1, each next one begins right after the previous
\* one ends, and when the planner returns them the last one ends at S - 1.
C2_Contiguous ==
  /\ Len(parts) > 0 => parts[1].Begin = 0
  /\ \A i \in 1..Len(parts) :
       parts[i].End = parts[i].Begin + parts[i].Data.len - 1
  /\ \A i \in 1..(Len(parts) - 1) : parts[i + 1].Begin = parts[i].End + 1
  /\ (planPc = "done" /\ Len(file) >= 1) =>
       /\ Len(parts) >= 1
       /\ parts[Len(parts)].End = Len(file) - 1

\* C2 witness: a plan of three parts of unequal sizes has been returned.
C2_Witness ==
  /\ planPc = "done"
  /\ Len(parts) = 3
  /\ parts[1].Data.len # parts[2].Data.len
  /\ Len(file) = MaxSize

\* C3: each part holds an array of its own, the parts' bytes concatenated in
\* ascending Begin order are the bytes read so far, and for a returned plan
\* they are the file, so the digest of the reassembly is the file's digest.
C3_RoundTrip ==
  /\ \A i \in 1..Len(parts) :
       /\ parts[i].Data.ptr # 0
       /\ \A j \in 1..Len(parts) : i # j => parts[i].Data.ptr # parts[j].Data.ptr
  /\ Concat(ByBegin(parts)) = SubSeq(file, 1, nBytes)
  /\ planPc = "done" =>
       /\ Concat(ByBegin(parts)) = file
       /\ Sha1(Concat(ByBegin(parts))) = Sha1(file)

\* C3 witness: a returned plan of several parts whose reads left stale bytes
\* in the shared buffer (a later read was shorter than an earlier one).
C3_Witness ==
  /\ planPc = "done"
  /\ Len(parts) >= 2
  /\ parts[1].Data.len > parts[Len(parts)].Data.len
  /\ \E i, j \in 1..Len(file) : file[i] # file[j]

\* C4 as claimed, on a file whose reads are never short: a returned plan has
\* exactly ceil(S/P) parts, every part but the last holds P bytes and the last
\* holds between 1 and P bytes.
C4_ExactWindows ==
  (planPc = "done" /\ ~osShort) =>
    /\ Len(parts) = CeilDiv(Len(file), partSize)
    /\ \A i \in 1..(Len(parts) - 1) : parts[i].Data.len = partSize
    /\ Len(parts) >= 1 =>
         parts[Len(parts)].Data.len \in 1..partSize

\* C12 as claimed: the planner returns parts without an error only for a
\* non-empty input, and then at least one part; a zero-length input makes it
\* fail.
C12_EmptyInputFails ==
  planPc = "done" => (Len(file) > 0 /\ Len(parts) >= 1)

\* The half of C12 that holds: a non-empty input gives at least one part.
C12_NonEmptyHasPart ==
  (planPc = "done" /\ Len(file) > 0) => Len(parts) >= 1

\* ------------------------------------------------------------------ Upload
MaxUpSize == 3
MaxPolls == 2
\* The single-shot / chunked threshold (20*1024 bytes), in model units.
ChunkThreshold == 2

\* The archives Upload is given: one per size.
UpFiles == {[i \in 1..n |-> i % 2] : n \in 0..MaxUpSize}

\* What the authenticated request executor hands back: a status and a body,
\* the body a stream of JSON documents: "msg" an object with a non-empty
\* message field, "obj" an object without one, "bad" not JSON.
Docs == {"msg", "obj", "bad"}
Bodies == {<<>>} \cup {<<a>> : a \in Docs} \cup {<<a, b>> : a \in Docs, b \in Docs}
Responses == [status : {200, 204, 404}, body : Bodies]

\* json.NewDecoder(resp.Body).Decode(&v) on what is left of the body.
Decode(body) == IF body = <<>> \/ Head(body) = "bad" THEN "err" ELSE "nil"

\* handleResponse: the errors it may return for a response. After decoding
\* the error object the first decoder has buffered some of what follows it,
\* possibly all of it, so the second decoder sees the rest or nothing.
HandleResponse(resp) ==
  IF resp.status < 200 \/ resp.status >= 300
    THEN IF Decode(resp.body) = "err" THEN {"err"}
         ELSE IF Head(resp.body) = "msg" THEN {"err"}
         ELSE {Decode(Tail(resp.body)), Decode(<<>>)}
    ELSE IF resp.status # 204 THEN {Decode(resp.body)} ELSE {"nil"}

IsChunkedAbove(sz) == sz > ChunkThreshold
\* if info.Size() >= 20*1024
IsChunked(sz) == sz >= ChunkThreshold

Return(err) ==
  /\ upPc' = "returned"
  /\ upRet' = err

\* Upload: Stat, then the choice of the path.
Upload ==
  /\ upPc = "start" /\ ~crashed
  /\ \/ /\ Return("err")
        /\ UNCHANGED path
     \/ /\ upPc' = IF IsChunked(Len(file)) THEN "createSession" ELSE "single"
        /\ path' = path \cup {IF IsChunked(Len(file)) THEN "chunked" ELSE "single"}
        /\ UNCHANGED upRet
  /\ UNCHANGED <<sent, commitReq, task, got, snap, uploadedParts, recvd, errored,
                 crashed, planVars, sessVars, runVars, archVars, call>>

\* singleUpload: a local failure before the request, or the request and the
\* handling of its response.
SingleUpload ==
  /\ upPc = "single" /\ ~crashed
  /\ \/ /\ Return("err")
        /\ UNCHANGED sent
     \/ /\ sent' = [sent EXCEPT !.single = @ + 1]
        /\ \/ Return("err")
           \/ \E resp \in Responses, e \in {"nil", "err"} :
                /\ e \in HandleResponse(resp)
                /\ Return(e)
  /\ UNCHANGED <<path, commitReq, task, got, snap, uploadedParts, recvd, errored,
                 crashed, planVars, sessVars, runVars, archVars, call>>

\* The ids the remote side gives to upload sessions.
SessionIds == {"s1", "s2"}

\* chunkedUpload up to the planner loop: Stat and CreateUploadSession, whose
\* response carries the session's Id.
CreateSession ==
  /\ upPc = "createSession" /\ ~crashed
  /\ \/ /\ Return("err")
        /\ UNCHANGED <<sent, planPc, sessionId>>
     \/ /\ sent' = [sent EXCEPT !.create = @ + 1]
        /\ \/ /\ Return("err")
              /\ UNCHANGED <<planPc, sessionId>>
           \/ \E resp \in Responses, e \in {"nil", "err"} :
                /\ e \in HandleResponse(resp)
                /\ IF e = "err"
                     THEN Return("err") /\ UNCHANGED <<planPc, sessionId>>
                     ELSE /\ upPc' = "plan" /\ planPc' = "read" /\ UNCHANGED upRet
                          /\ \E id \in SessionIds : sessionId' = id
  /\ UNCHANGED <<path, commitReq, task, got, snap, uploadedParts, recvd, errored, crashed,
                 osShort, planner, file, partSize, filePos, rdBuf, mem, nBytes, parts,
                 addressed, lastPoll, digestErr, runVars, archVars, call>>

\* The planner loop inside chunkedUpload.
PlanLoop ==
  /\ upPc = "plan" /\ ~crashed
  /\ ChunkStep
  /\ UNCHANGED <<upVars, runVars, archVars, call>>

LoopDoneEarly(i) == i >= 1
\* for i := 0; i < len(parts); i++ of the collecting loop: the loop is over.
LoopDone(i) == ~(i < Len(parts))

\* The end of the planner loop: return err, or one goroutine per part.
Dispatch ==
  /\ upPc = "plan" /\ ~crashed
  /\ planPc \in {"done", "failed"}
  /\ IF planPc = "failed"
       THEN /\ Return("err")
            /\ UNCHANGED <<task, got, snap>>
       ELSE /\ task' = [t \in 1..Len(parts) |-> "do"]
            /\ got' = [t \in 1..Len(parts) |-> [Offset |-> 0, PartId |-> 0]]
            /\ snap' = [t \in 1..Len(parts) |-> <<>>]
            /\ upPc' = IF LoopDone(0) THEN "poll" ELSE "collect"
            /\ UNCHANGED upRet
  /\ UNCHANGED <<path, sent, commitReq, uploadedParts, recvd, errored, crashed, planVars, sessVars, runVars, archVars, call>>

\* Goroutine t: the PUT of its part and handleResponse of the answer; a
\* transport error is sent on uploadChan, an error response is sent on
\* uploadChan, otherwise the confirmed part is kept for the append.
TaskDo(t) ==
  /\ ~crashed
  /\ t \in DOMAIN task /\ task[t] = "do"
  /\ sent' = [sent EXCEPT !.put = @ \cup {t}]
  /\ addressed' = addressed \cup {sessionId}
  /\ \/ /\ task' = [task EXCEPT ![t] = "sendErrT"]
        /\ errored' = errored \cup {t}
        /\ UNCHANGED got
     \/ \E resp \in Responses, e \in {"nil", "err"} :
          /\ e \in HandleResponse(resp)
          /\ IF e = "err"
               THEN /\ task' = [task EXCEPT ![t] = "sendErrR"]
                    /\ errored' = errored \cup {t}
                    /\ UNCHANGED got
               ELSE /\ task' = [task EXCEPT ![t] = "load"]
                    /\ got' = [got EXCEPT ![t] =
                                 [Offset |-> parts[t].Begin, PartId |-> t]]
                    /\ UNCHANGED errored
  /\ UNCHANGED <<upPc, upRet, path, commitReq, snap, uploadedParts, recvd, crashed,
                 planVars, sessionId, lastPoll, digestErr, runVars, archVars, call>>

\* Goroutine t after its transport error was received: it goes on to
\* handleResponse with the nil response, and resp.StatusCode panics.
TaskPanic(t) ==
  /\ ~crashed
  /\ t \in DOMAIN task /\ task[t] = "afterErrT"
  /\ crashed' = TRUE
  /\ UNCHANGED <<upPc, upRet, path, sent, commitReq, task, got, snap, uploadedParts,
                 recvd, errored, planVars, sessVars, runVars, archVars, call>>

\* uploadedParts = append(uploadedParts, part), unsynchronised: the read of
\* the slice ...
TaskAppendLoad(t) ==
  /\ ~crashed
  /\ t \in DOMAIN task /\ task[t] = "load"
  /\ snap' = [snap EXCEPT ![t] = uploadedParts]
  /\ task' = [task EXCEPT ![t] = "store"]
  /\ UNCHANGED <<upPc, upRet, path, sent, commitReq, got, uploadedParts, recvd, errored,
                 crashed, planVars, sessVars, runVars, archVars, call>>

\* ... and the write of the longer slice.
TaskAppendStore(t) ==
  /\ ~crashed
  /\ t \in DOMAIN task /\ task[t] = "store"
  /\ uploadedParts' = Append(snap[t], got[t])
  /\ snap' = [snap EXCEPT ![t] = <<>>]
  /\ task' = [task EXCEPT ![t] = "sendNil"]
  /\ UNCHANGED <<upPc, upRet, path, sent, commitReq, got, recvd, errored, crashed,
                 planVars, sessVars, runVars, archVars, call>>

\* One iteration of the collecting loop: err = <-uploadChan meets the send of
\* goroutine t; the goroutine goes on after its send.
Collect(t) ==
  /\ upPc = "collect" /\ ~crashed
  /\ t \in DOMAIN task /\ task[t] \in {"sendErrT", "sendErrR", "sendNil"}
  /\ task' = [task EXCEPT ![t] = CASE task[t] = "sendErrT" -> "afterErrT"
                                   [] task[t] = "sendErrR" -> "load"
                                   [] task[t] = "sendNil" -> "exit"]
  /\ recvd' = recvd + 1
  /\ upPc' = IF task[t] # "sendNil" THEN "gotErr"
             ELSE IF LoopDone(recvd + 1) THEN "poll" ELSE "collect"
  /\ UNCHANGED <<upRet, path, sent, commitReq, got, snap, uploadedParts, errored,
                 crashed, planVars, sessVars, runVars, archVars, call>>

\* if err != nil { return err } of the collecting loop.
CollectReturn ==
  /\ upPc = "gotErr" /\ ~crashed
  /\ Return("err")
  /\ UNCHANGED <<path, sent, commitReq, task, got, snap, uploadedParts, recvd, errored,
                 crashed, planVars, sessVars, runVars, archVars, call>>

SessionReadyAlways(processed, total) == TRUE
\* if processed == total { break }
SessionReady(processed, total) == processed = total

LoopCeilingOne(polls) == polls >= 1
\* for { ... }: the loop has no condition and no count of its iterations
LoopCeiling(polls) == FALSE

\* One iteration of the session-state loop: GetUploadSession of the session,
\* then return err, break, or sleep and go round again. NumPartsProcessed and
\* TotalParts are what the remote side says.
Poll ==
  /\ upPc = "poll" /\ ~crashed
  /\ sent' = [sent EXCEPT !.poll = @ + 1]
  /\ addressed' = addressed \cup {sessionId}
  /\ \/ /\ Return("err")
        /\ lastPoll' = "err"
     \/ \E processed \in 0..Len(parts), total \in 0..Len(parts) :
          /\ lastPoll' = IF processed = total THEN "equal" ELSE "unequal"
          /\ IF SessionReady(processed, total)
               THEN upPc' = "digest" /\ UNCHANGED upRet
               ELSE IF LoopCeiling(sent.poll + 1)
                      THEN Return("err")
                      ELSE sent.poll + 1 < MaxPolls /\ UNCHANGED <<upPc, upRet>>
  /\ UNCHANGED <<path, commitReq, task, got, snap, uploadedParts, recvd, errored,
                 crashed, planVars, sessionId, digestErr, runVars, archVars, call>>

LessDescending(a, b) == a.Offset > b.Offset
\* ByOffset.Less
Less(a, b) == a.Offset < b.Offset

RECURSIVE InsertByOffset(_, _)
InsertByOffset(p, ps) ==
  IF ps = <<>> THEN <<p>>
  ELSE IF Less(p, Head(ps)) THEN <<p>> \o ps
  ELSE <<Head(ps)>> \o InsertByOffset(p, Tail(ps))

\* sort.Sort(ByOffset(parts))
RECURSIVE SortByOffset(_)
SortByOffset(ps) ==
  IF ps = <<>> THEN <<>> ELSE InsertByOffset(Head(ps), SortByOffset(Tail(ps)))

FileDigestOfParts ==
  Base64(Sha1([i \in 1..Len(parts) |-> parts[i].Digest]))
\* fileHash := sha1.New(); io.Copy(fileHash, digestFile) of the file opened
\* again by name; digest := base64 of fileHash.Sum(nil)
FileDigest == Base64(Sha1(file))

\* Returning nil after the loop without the digest and without the commit.
CommitSkipped ==
  /\ upPc = "digest" /\ ~crashed
  /\ Return("nil")
  /\ UNCHANGED <<path, sent, commitReq, task, got, snap, uploadedParts, recvd,
                 errored, crashed, planVars, sessVars, runVars, archVars, call>>

\* The digest of the file re-read from disk (os.Open of the file's name and
\* io.Copy into the hash, either of which can fail), then CommitUploadSession.
Commit ==
  /\ upPc = "digest" /\ ~crashed
  /\ \/ /\ Return("err")
        /\ digestErr' = TRUE
        /\ UNCHANGED <<sent, commitReq, uploadedParts, addressed>>
     \/ /\ uploadedParts' = SortByOffset(uploadedParts)
        /\ UNCHANGED digestErr
        /\ sent' = [sent EXCEPT !.commit = @ + 1]
        /\ addressed' = addressed \cup {sessionId}
        /\ commitReq' = [parts |-> SortByOffset(uploadedParts),
                         digest |-> FileDigest]
        /\ \/ Return("err")
           \/ \E resp \in Responses, e \in {"nil", "err"} :
                /\ e \in HandleResponse(resp)
                /\ Return(e)
  /\ UNCHANGED <<path, task, got, snap, recvd, errored, crashed, planVars, sessionId,
                 lastPoll, runVars, archVars, call>>

UpInit ==
  /\ osShort \in BOOLEAN
  /\ planner = "chunkedUpload"
  /\ file \in UpFiles
  /\ partSize \in 1..MaxPart
  /\ PlanStart
  /\ planPc = "idle"
  /\ upPc = "start"
  /\ upRet = "none"
  /\ path = {}
  /\ sent = [create |-> 0, put |-> {}, poll |-> 0, commit |-> 0, single |-> 0]
  /\ commitReq = NoCommit
  /\ task = <<>>
  /\ got = <<>>
  /\ snap = <<>>
  /\ uploadedParts = <<>>
  /\ recvd = 0
  /\ errored = {}
  /\ crashed = FALSE
  /\ sessionId = "none"
  /\ addressed = {}
  /\ lastPoll = "none"
  /\ digestErr = FALSE
  /\ RunIdle
  /\ ArchIdle
  /\ CallIdle

UpNext ==
  \/ Upload
  \/ SingleUpload
  \/ CreateSession
  \/ PlanLoop
  \/ Dispatch
  \/ \E t \in 1..MaxUpSize : TaskDo(t)
  \/ \E t \in 1..MaxUpSize : TaskPanic(t)
  \/ \E t \in 1..MaxUpSize : TaskAppendLoad(t)
  \/ \E t \in 1..MaxUpSize : TaskAppendStore(t)
  \/ \E t \in 1..MaxUpSize : Collect(t)
  \/ CollectReturn
  \/ Poll
  \/ Commit

SpecUpload == UpInit /\ [][UpNext]_vars

\* ------------------------------------------------------- Upload: claims
\* C1 as claimed: when the run of Upload is over (Upload returned, or the
\* process ended) and a part-upload goroutine had an error to report, Upload
\* has returned an error and no commit request was sent.
C1_ErrorFailsUpload ==
  ((upPc = "returned" \/ crashed) /\ errored # {}) =>
    (upRet = "err" /\ sent.commit = 0)

\* The half of C1 that holds in every interleaving: with an error to report
\* no commit request is sent and Upload does not return nil.
C1_NoCommitAfterError ==
  errored # {} => (sent.commit = 0 /\ commitReq = NoCommit /\ upRet # "nil")

\* C5: Upload takes at most one path; past Stat it has taken exactly the
\* chunked one when the size is at least the threshold and exactly the
\* single-shot one when it is below; the single-shot path creates no session,
\* starts no goroutine, puts no part, polls and commits nothing; the chunked
\* path sends no single-shot request.
C5_OnePath ==
  /\ Cardinality(path) <= 1
  /\ (upPc \notin {"start", "returned"} \/ upRet = "nil") => path # {}
  /\ "chunked" \in path => Len(file) >= ChunkThreshold
  /\ "single" \in path => Len(file) < ChunkThreshold
  /\ "single" \in path =>
       /\ sent.create = 0 /\ sent.put = {} /\ sent.poll = 0 /\ sent.commit = 0
       /\ task = <<>> /\ planPc = "idle"
  /\ "chunked" \in path => sent.single = 0
  /\ path = {} => sent = [create |-> 0, put |-> {}, poll |-> 0, commit |-> 0,
                          single |-> 0]

\* C5 witness: an archive of exactly the threshold size went through the
\* chunked path to a successful commit.
C5_Witness ==
  /\ Len(file) = ChunkThreshold
  /\ path = {"chunked"}
  /\ sent.commit = 1
  /\ upRet = "nil"

\* C5, the other side: an archive one unit below the threshold was sent in
\* one request.
C5_WitnessSingle ==
  /\ Len(file) = ChunkThreshold - 1
  /\ path = {"single"}
  /\ sent.single = 1
  /\ upRet = "nil"

\* C15 as claimed: a goroutine that had an error to report does nothing
\* after delivering it: it does not go on to handleResponse (and panic), does
\* not append to uploadedParts, and does not come to a second send.
C15_ErrorEndsTask ==
  /\ ~crashed
  /\ \A t \in DOMAIN task :
       t \in errored => task[t] \in {"sendErrT", "afterErrT", "sendErrR", "load"}

\* The half of C15 that holds: the collecting loop is left for the polls
\* only with one nil outcome received from each of the N goroutines.
C15_CollectsAll ==
  (upPc \in {"poll", "digest"} \/ sent.poll > 0) =>
    (recvd = Len(parts) /\ \A t \in DOMAIN task : task[t] = "exit")

\* C16 as claimed: the part list of the commit request holds the confirmed
\* descriptor of every planned part, each once.
C16_CommitHasAllParts ==
  sent.commit > 0 =>
    /\ Len(commitReq.parts) = Len(parts)
    /\ \A t \in 1..Len(parts) :
         Cardinality({i \in 1..Len(commitReq.parts) : commitReq.parts[i].PartId = t}) = 1

\* The scheduling of the goroutines and of chunkedUpload itself: each one
\* that can take a step eventually takes one.
TaskStep(t) ==
  TaskDo(t) \/ TaskPanic(t) \/ TaskAppendLoad(t) \/ TaskAppendStore(t) \/ Collect(t)

MainStep ==
  \/ Upload
  \/ SingleUpload
  \/ CreateSession
  \/ PlanLoop
  \/ Dispatch
  \/ CollectReturn
  \/ Poll
  \/ Commit

FairUpload ==
  /\ SpecUpload
  /\ WF_vars(MainStep)
  /\ \A t \in 1..MaxUpSize : WF_vars(TaskStep(t))

\* C17 as claimed: every dispatched goroutine comes to its end (or the
\* process ends), also after chunkedUpload has returned.
C17_TasksTerminate ==
  \A t \in 1..MaxUpSize :
    [](t \in DOMAIN task => <>(crashed \/ (t \in DOMAIN task /\ task[t] = "exit")))

\* C18: a commit request is sent only after a status poll said processed =
\* total; the loop is left for the digest only by such a poll; a poll that
\* fails ends Upload with an error and without a commit; after a poll that
\* said processed # total the loop goes on.
C18_CommitAfterReadyPoll ==
  /\ (sent.commit > 0 \/ upPc = "digest") => (lastPoll = "equal" /\ sent.poll >= 1)
  /\ lastPoll = "err" => (upPc = "returned" /\ upRet = "err" /\ sent.commit = 0)
  /\ lastPoll = "unequal" => (upPc = "poll" /\ sent.commit = 0)
  /\ lastPoll = "none" => (sent.poll = 0 /\ sent.commit = 0)

\* C18 witness: a poll that said processed # total, then one that said
\* processed = total, then the commit.
C18_Witness ==
  /\ sent.poll = 2
  /\ lastPoll = "equal"
  /\ sent.commit = 1
  /\ upRet = "nil"

\* C19: the parts of the commit request are in ascending order of Offset.
C19_CommitSorted ==
  sent.commit > 0 =>
    \A i \in 1..Len(commitReq.parts) : \A j \in 1..Len(commitReq.parts) :
      i < j => commitReq.parts[i].Offset < commitReq.parts[j].Offset

\* C19 witness: a commit of all the parts of a three-part upload.
C19_Witness ==
  /\ sent.commit > 0
  /\ Len(commitReq.parts) = 3
  /\ upRet = "nil"

\* C19, the case the sort is for: the appends came in another order than the
\* offsets.
C19_WitnessUnsorted ==
  /\ upPc = "digest"
  /\ Len(uploadedParts) >= 2
  /\ uploadedParts[1].Offset > uploadedParts[2].Offset

\* C20: one CreateUploadSession at most, and it comes before every other
\* request; the first poll comes when all N goroutines have sent their part
\* and are over; the commit comes after a poll, once, and nothing is sent
\* after it; every request goes to the session of this call.
C20_SessionOrder ==
  /\ sent.create <= 1 /\ sent.commit <= 1
  /\ (sent.put # {} \/ sent.poll > 0 \/ sent.commit > 0) =>
       (sent.create = 1 /\ sessionId \in SessionIds)
  /\ sent.poll > 0 =>
       (sent.put = 1..Len(parts) /\ \A t \in DOMAIN task : task[t] = "exit")
  /\ sent.commit > 0 => (sent.poll >= 1 /\ upPc = "returned")
  /\ addressed \subseteq {sessionId}

\* C20 witness: a chunked upload of several parts that went through a
\* repeated poll to its commit.
C20_Witness ==
  /\ Len(parts) >= 2
  /\ sent.create = 1 /\ sent.put = 1..Len(parts) /\ sent.poll = 2 /\ sent.commit = 1
  /\ addressed = {sessionId}
  /\ upRet = "nil"

\* Upload under the same scheduling, given an archive just below the
\* threshold (sent in one request), at it or just above it (sent in parts of
\* at most the threshold): the runs the claims about the session-state loop
\* are checked on.
PollFiles ==
  {f \in UpFiles : Len(f) \in (ChunkThreshold - 1)..(ChunkThreshold + 1)}

PollInit ==
  /\ UpInit
  /\ file \in PollFiles
  /\ partSize \in 1..ChunkThreshold

FairPolling ==
  /\ PollInit /\ [][UpNext]_vars
  /\ WF_vars(MainStep)
  /\ \A t \in 1..MaxUpSize : WF_vars(TaskStep(t))

\* C21, as stated: once the session is created and every part upload has
\* reported success, and unless a GetUploadSession fails, Upload eventually
\* sends the commit and returns. (The remote side reports processed = total
\* within MaxPolls polls.)
C21_CommitsWhenReady ==
  (upPc = "poll") ~> ((upPc = "returned" /\ sent.commit = 1) \/ lastPoll = "err")

\* C21, amended: the same, unless re-reading the file for the digest fails,
\* which returns that error before the commit is sent.
C21_CommitsUnlessReadFails ==
  (upPc = "poll") ~>
     (upPc = "returned" /\ (sent.commit = 1 \/ lastPoll = "err" \/ digestErr))

\* C21 witness: a chunked upload of several parts that was polled twice,
\* re-read its file, sent the commit and returned.
C21_Witness ==
  /\ upPc = "returned" /\ sent.commit = 1
  /\ Len(parts) >= 2 /\ sent.poll = 2 /\ ~digestErr

C24_Digests ==
  /\ sent.commit > 0 =>
       (commitReq.digest = Base64(Sha1(file)) /\ lastPoll = "equal")
  /\ \A i \in 1..Len(parts) :
       parts[i].Digest =
         Base64(Sha1(SubSeq(file, parts[i].Begin + 1,
                            parts[i].Begin + parts[i].Data.len)))

\* C24 witness: a commit sent for a file planned in parts of different
\* lengths by short reads.
C24_Witness ==
  /\ sent.commit = 1 /\ Len(parts) >= 2
  /\ parts[1].Data.len < parts[2].Data.len

\* A step of the chunked upload before the commit failed: session creation,
\* planning, a part upload, or a poll.
ChunkedStepFailed ==
  /\ "chunked" \in path
  /\ \/ upPc = "returned" /\ sessionId = "none"
     \/ planPc = "failed"
     \/ errored # {}
     \/ lastPoll = "err"

\* C23, as stated: when the run of a chunked upload is over and session
\* creation, planning, a part upload or a poll failed, Upload has returned an
\* error and no commit request was sent (the client has no abort request).
C23_FailureReturnsError ==
  ((upPc = "returned" \/ crashed) /\ ChunkedStepFailed) =>
    (upRet = "err" /\ sent.commit = 0 /\ commitReq = NoCommit)

\* The half of C23 that holds in every interleaving: after such a failure no
\* commit request is sent and Upload does not return nil.
C23_NoCommitAfterFailure ==
  ChunkedStepFailed =>
    (sent.commit = 0 /\ commitReq = NoCommit /\ upRet # "nil")

\* --------------------------------------------------------------- retention
MaxOld == 3
MaxLimit == 2
\* The first timestamp of the model's clock, the last with a one-digit name:
\* the timestamps 9, 10, 11, ... have names of one and of two digits.
FirstTs == 10 - 1
\* The page size of the one listing request (999), in model units.
ListLimit == 3

OldTs == FirstTs..(FirstTs + MaxOld - 1)
NewTs == FirstTs + MaxOld

\* strconv.FormatInt(n, 10), as character codes.
RECURSIVE FormatInt(_)
FormatInt(n) ==
  IF n < 10 THEN <<48 + n>> ELSE FormatInt(n \div 10) \o <<48 + (n % 10)>>

\* ".tar.gz" as character codes.
TarGz == <<46, 116, 97, 114, 46, 103, 122>>

\* outputFileName; the directory in front of it is the same for all files.
FileName(ts) == FormatInt(ts) \o TarGz

\* a < b on strings: byte-wise, a proper prefix first.
RECURSIVE StrLess(_, _)
StrLess(a, b) ==
  IF b = <<>> THEN FALSE
  ELSE IF a = <<>> THEN TRUE
  ELSE IF Head(a) # Head(b) THEN Head(a) < Head(b)
  ELSE StrLess(Tail(a), Tail(b))

\* sort.Sort(ByName(filenames)): the files in ascending order of their names.
RECURSIVE SortByName(_)
SortByName(S) ==
  IF S = {} THEN <<>>
  ELSE LET m == CHOOSE x \in S :
                  \A y \in S \ {x} : StrLess(FileName(x), FileName(y))
       IN <<m>> \o SortByName(S \ {m})

Reverse(q) == [i \in 1..Len(q) |-> q[Len(q) + 1 - i]]

Range(q) == {q[i] : i \in 1..Len(q)}

\* The zero value of a file name, "": what a slice of names holds beyond its
\* length. No file has it.
NoName == 0

\* fileSystemCleanup: filesToRemove. With a negative limit numberToRemove is
\* above len(filenames) and filenames[:numberToRemove], where it is within
\* the capacity of the slice, is the names followed by zero values.
LocalFilesToRemove(dir, limit) ==
  LET filenames == SortByName(dir)
      numberToRemove == Len(filenames) - limit
  IN IF numberToRemove <= 0 THEN <<>>
     ELSE [i \in 1..numberToRemove |->
             IF i <= Len(filenames) THEN filenames[i] ELSE NoName]

\* The remote folder's items as the server lists them: sort=name, direction=DESC.
ServerListing(folder) == Reverse(SortByName(folder))

\* ListItemsInFolder(folder, limit, offset): one page of the listing.
ListItemsInFolder(folder, limit, offset) ==
  SubSeq(ServerListing(folder), offset + 1,
         Min(offset + limit, Cardinality(folder)))

\* exportToBox: filesToRemove.
RemoteFilesToRemove(entries, limit) ==
  IF Len(entries) > limit THEN SubSeq(entries, limit + 1, Len(entries)) ELSE <<>>

RemovedKeepGoing(toRemove, f) ==
  IF f = 0 THEN Range(toRemove) ELSE Range(toRemove) \ {toRemove[f]}
\* The entries a remove loop deleted: all of them when no removal fails
\* (f = 0), those before the f-th when the f-th removal fails.
Removed(toRemove, f) ==
  IF f = 0 THEN Range(toRemove) ELSE {toRemove[i] : i \in 1..(f - 1)}

\* fileSystemCleanup run on its own: Glob, the count, the sort, the removals.
LocalPrune ==
  /\ runPc = "prune"
  /\ \/ /\ lastPrune' = [store |-> "local", before |-> localDir, deleted |-> {},
                         ok |-> FALSE, again |-> prevOk.local]
        /\ prevOk' = [prevOk EXCEPT !.local = FALSE]
        /\ UNCHANGED localDir
     \/ LET toRemove == LocalFilesToRemove(localDir, conf.BackupLimit)
        IN \E f \in 0..Len(toRemove) :
             /\ localDir' = localDir \ Removed(toRemove, f)
             /\ lastPrune' = [store |-> "local", before |-> localDir,
                              deleted |-> Removed(toRemove, f), ok |-> f = 0,
                              again |-> prevOk.local]
             /\ prevOk' = [prevOk EXCEPT !.local = (f = 0)]
  /\ UNCHANGED <<conf, now, remote, outFile, runPc, runRet, disk, net, uploadRet,
                 planVars, upVars, archVars, call>>

\* The prune of exportToBox run on its own: the listing, the removals.
RemotePrune ==
  /\ runPc = "prune"
  /\ \/ /\ lastPrune' = [store |-> "remote", before |-> remote, deleted |-> {},
                         ok |-> FALSE, again |-> prevOk.remote]
        /\ prevOk' = [prevOk EXCEPT !.remote = FALSE]
        /\ UNCHANGED remote
     \/ LET entries == ListItemsInFolder(remote, ListLimit, 0)
            toRemove == RemoteFilesToRemove(entries, conf.BackupLimit)
        IN \E f \in 0..Len(toRemove) :
             /\ remote' = remote \ Removed(toRemove, f)
             /\ lastPrune' = [store |-> "remote", before |-> remote,
                              deleted |-> Removed(toRemove, f), ok |-> f = 0,
                              again |-> prevOk.remote]
             /\ prevOk' = [prevOk EXCEPT !.remote = (f = 0)]
  /\ UNCHANGED <<conf, now, localDir, outFile, runPc, runRet, disk, net, uploadRet,
                 planVars, upVars, archVars, call>>

\* A new archive lands in the output directory.
AddLocal ==
  /\ runPc = "prune"
  /\ \E ts \in (OldTs \cup {NewTs}) \ localDir :
       localDir' = localDir \cup {ts}
  /\ prevOk' = [prevOk EXCEPT !.local = FALSE]
  /\ UNCHANGED <<conf, now, remote, outFile, runPc, runRet, disk, net, uploadRet,
                 lastPrune, planVars, upVars, archVars, call>>

\* A new archive lands in the remote folder.
AddRemote ==
  /\ runPc = "prune"
  /\ \E ts \in (OldTs \cup {NewTs}) \ remote :
       remote' = remote \cup {ts}
  /\ prevOk' = [prevOk EXCEPT !.remote = FALSE]
  /\ UNCHANGED <<conf, now, localDir, outFile, runPc, runRet, disk, net, uploadRet,
                 lastPrune, planVars, upVars, archVars, call>>

PruneInit ==
  /\ osShort = FALSE
  /\ planner = "ChunkFile"
  /\ file = <<>>
  /\ partSize = 1
  /\ PlanStart
  /\ planPc = "idle"
  /\ UpIdle
  /\ ArchIdle
  /\ CallIdle
  /\ conf \in [Box : {ValidBox}, BackupLimit : 1..MaxLimit]
  /\ now = NewTs
  /\ localDir \in SUBSET OldTs
  /\ remote \in SUBSET OldTs
  /\ outFile = "absent"
  /\ runPc = "prune"
  /\ runRet = "none"
  /\ disk = <<>>
  /\ net = <<>>
  /\ uploadRet = "none"
  /\ lastPrune = NoPrune
  /\ prevOk = [local |-> FALSE, remote |-> FALSE]

PruneNext ==
  \/ LocalPrune
  \/ RemotePrune
  \/ AddLocal
  \/ AddRemote

SpecPrune == PruneInit /\ [][PruneNext]_vars

\* ------------------------------------------------------ retention: claims
\* The k entries of S with the largest timestamps.
Newest(S, k) ==
  {x \in S : Cardinality({y \in S : y > x}) < k}

\* C6 as claimed: a local prune with limit L >= 1 that completed over N files
\* deleted exactly N - L files when N > L, the L files left being those with
\* the numerically largest timestamps, and deleted nothing when N <= L.
C6_LocalKeepsNewest ==
  (lastPrune.store = "local" /\ lastPrune.ok /\ conf.BackupLimit >= 1) =>
    LET N == Cardinality(lastPrune.before)
        L == conf.BackupLimit
    IN IF N > L
         THEN /\ Cardinality(lastPrune.deleted) = N - L
              /\ lastPrune.before \ lastPrune.deleted = Newest(lastPrune.before, L)
         ELSE lastPrune.deleted = {}

\* C7 as claimed: a remote prune with limit L >= 1 that completed over a
\* folder of N entries deleted exactly the entries at indices L..N-1 of the
\* folder's listing by name descending (N - L entries) when N > L, and sent
\* no delete when N <= L; for every N, also above the page size.
C7_RemoteDeletesBeyondLimit ==
  (lastPrune.store = "remote" /\ lastPrune.ok /\ conf.BackupLimit >= 1) =>
    LET listing == ServerListing(lastPrune.before)
        N == Len(listing)
        L == conf.BackupLimit
    IN IF N > L
         THEN /\ lastPrune.deleted = {listing[i] : i \in (L + 1)..N}
              /\ Cardinality(lastPrune.deleted) = N - L
         ELSE lastPrune.deleted = {}

\* C8 as claimed: a prune that runs right after a completed prune of the same
\* store with the same limit, no entry added in between, deletes nothing.
C8_PruneIdempotent ==
  (lastPrune.again /\ lastPrune.ok) => lastPrune.deleted = {}

\* ------------------------------------------------------ boxCommandAction
\* The configurations a run is given: at most one empty Box field, any limit
\* from -1 up (backup_limit is an int64 of the configuration file).
Confs ==
  [Box : {ValidBox} \cup {[ValidBox EXCEPT ![i] = ""] : i \in 1..Len(BoxFields)},
   BackupLimit : (0 - 1)..MaxLimit]

\* validateConfigValues: the error it returns, "nil" for none.
ValidateConfigValues(c) ==
  IF \E i \in 1..Len(BoxFields) : c.Box[i] = ""
    THEN "Missing box " \o BoxFields[CHOOSE i \in 1..Len(BoxFields) :
                                       /\ c.Box[i] = ""
                                       /\ \A j \in 1..(i - 1) : c.Box[j] # ""]
    ELSE IF c.BackupLimit = 0 THEN "Missing backup_limit" ELSE "nil"

\* The run ends: a returned error, a validation error, log.Fatal, or nil.
RunEnds(how) ==
  /\ runPc' = "done"
  /\ runRet' = how

RunGoes(next) ==
  /\ runPc' = next
  /\ UNCHANGED runRet

\* os.MkdirAll(outputDirectory).
RunMkdir ==
  /\ runPc = "mkdir"
  /\ disk' = Append(disk, "mkdir")
  /\ \/ RunEnds("err")
     \/ RunGoes("tempfile")
  /\ UNCHANGED <<conf, now, localDir, remote, outFile, net, uploadRet, lastPrune,
                 prevOk, planVars, upVars, archVars, call>>

\* ioutil.TempFile, createArchive into it, tmpOut.Close().
RunCreateArchive ==
  /\ runPc = "tempfile"
  /\ \/ /\ disk' = Append(disk, "tempfile")
        /\ RunEnds("fatal")
     \/ /\ disk' = disk \o <<"tempfile", "write">>
        /\ RunEnds("fatal")
     \/ /\ disk' = disk \o <<"tempfile", "write", "close">>
        /\ \/ RunEnds("err")
           \/ RunGoes("move")
  /\ UNCHANGED <<conf, now, localDir, remote, outFile, net, uploadRet, lastPrune,
                 prevOk, planVars, upVars, archVars, call>>

\* moveFile(tmpOut.Name(), outputPath): open, create, copy, remove.
RunMoveFile ==
  /\ runPc = "move"
  /\ \/ /\ disk' = Append(disk, "open")
        /\ RunEnds("err")
        /\ UNCHANGED <<localDir, outFile>>
     \/ /\ disk' = disk \o <<"open", "create">>
        /\ RunEnds("err")
        /\ UNCHANGED <<localDir, outFile>>
     \/ /\ disk' = disk \o <<"open", "create", "copy">>
        /\ RunEnds("err")
        /\ localDir' = localDir \cup {now}
        /\ outFile' = "partial"
     \/ /\ disk' = disk \o <<"open", "create", "copy", "remove">>
        /\ localDir' = localDir \cup {now}
        /\ outFile' = "complete"
        /\ \/ RunEnds("err")
           \/ RunGoes("open")
  /\ UNCHANGED <<conf, now, remote, net, uploadRet, lastPrune, prevOk, planVars, upVars, archVars, call>>

\* os.Open(outputPath).
RunOpen ==
  /\ runPc = "open"
  /\ disk' = Append(disk, "open")
  /\ \/ RunEnds("fatal")
     \/ RunGoes("cleanup")
  /\ UNCHANGED <<conf, now, localDir, remote, outFile, net, uploadRet, lastPrune,
                 prevOk, planVars, upVars, archVars, call>>

\* fileSystemCleanup(conf, outputDirectory). When numberToRemove is above
\* len(filenames) the slice expression panics if it is also above the
\* capacity Glob's result happens to have; otherwise the loop comes to a
\* zero-valued name, whose removal fails.
RunFileSystemCleanup ==
  /\ runPc = "cleanup"
  /\ \/ /\ disk' = Append(disk, "glob")
        /\ lastPrune' = [store |-> "local", before |-> localDir, deleted |-> {},
                         ok |-> FALSE, again |-> FALSE]
        /\ RunEnds("err")
        /\ UNCHANGED <<localDir, outFile>>
     \/ /\ Len(LocalFilesToRemove(localDir, conf.BackupLimit)) > Cardinality(localDir)
        /\ disk' = Append(disk, "glob")
        /\ RunEnds("panic")
        /\ UNCHANGED <<localDir, outFile, lastPrune>>
     \/ LET toRemove == LocalFilesToRemove(localDir, conf.BackupLimit)
            beyond == Len(toRemove) > Cardinality(localDir)
        IN \E f \in (IF beyond THEN 1 ELSE 0)..
                    (IF beyond THEN Cardinality(localDir) + 1 ELSE Len(toRemove)) :
             /\ disk' = disk \o <<"glob">>
                          \o [i \in 1..(IF f = 0 THEN Len(toRemove) ELSE f) |-> "remove"]
             /\ localDir' = localDir \ Removed(toRemove, f)
             /\ outFile' = IF now \in Removed(toRemove, f) THEN "absent" ELSE outFile
             /\ lastPrune' = [store |-> "local", before |-> localDir,
                              deleted |-> Removed(toRemove, f), ok |-> f = 0,
                              again |-> FALSE]
             /\ IF f = 0 THEN RunGoes("export") ELSE RunEnds("err")
  /\ UNCHANGED <<conf, now, remote, net, uploadRet, prevOk, planVars, upVars, archVars, call>>

\* exportToBox up to the upload: validateConfigValues, SearchFolders and,
\* with no folder of the name found, CreateBackupFolder.
RunExportStart ==
  /\ runPc = "export"
  /\ IF ValidateConfigValues(conf) # "nil"
       THEN /\ RunEnds("validation")
            /\ UNCHANGED net
       ELSE \/ /\ net' = Append(net, "search")
               /\ \/ RunEnds("fatal")
                  \/ RunGoes("upload")
            \/ /\ net' = net \o <<"search", "createFolder">>
               /\ \/ RunEnds("fatal")
                  \/ RunGoes("upload")
  /\ UNCHANGED <<conf, now, localDir, remote, outFile, disk, uploadRet, lastPrune,
                 prevOk, planVars, upVars, archVars, call>>

\* client.Upload(folder, file): the archive is in the folder when it returns nil.
RunUpload ==
  /\ runPc = "upload"
  /\ net' = Append(net, "upload")
  /\ \/ /\ uploadRet' = "err"
        /\ RunEnds("fatal")
        /\ UNCHANGED remote
     \/ /\ uploadRet' = "nil"
        /\ remote' = remote \cup {now}
        /\ RunGoes("prune")
  /\ UNCHANGED <<conf, now, localDir, outFile, disk, lastPrune, prevOk, planVars, upVars, archVars, call>>

\* The prune of exportToBox: ListItemsInFolder(folder, 999, 0), DeleteFile of
\* the entries beyond the limit.
RunRemotePrune ==
  /\ runPc = "prune" /\ uploadRet = "nil"
  /\ \/ /\ net' = Append(net, "list")
        /\ lastPrune' = [store |-> "remote", before |-> remote, deleted |-> {},
                         ok |-> FALSE, again |-> FALSE]
        /\ RunEnds("fatal")
        /\ UNCHANGED remote
     \/ LET entries == ListItemsInFolder(remote, ListLimit, 0)
            toRemove == RemoteFilesToRemove(entries, conf.BackupLimit)
        IN \E f \in 0..Len(toRemove) :
             /\ net' = net \o <<"list">>
                         \o [i \in 1..(IF f = 0 THEN Len(toRemove) ELSE f) |-> "delete"]
             /\ remote' = remote \ Removed(toRemove, f)
             /\ lastPrune' = [store |-> "remote", before |-> remote,
                              deleted |-> Removed(toRemove, f), ok |-> f = 0,
                              again |-> FALSE]
             /\ IF f = 0 THEN RunEnds("nil") ELSE RunEnds("fatal")
  /\ UNCHANGED <<conf, now, localDir, outFile, disk, uploadRet, prevOk, planVars, upVars, archVars, call>>

RunInit ==
  /\ osShort = FALSE
  /\ planner = "ChunkFile"
  /\ file = <<>>
  /\ partSize = 1
  /\ PlanStart
  /\ planPc = "idle"
  /\ UpIdle
  /\ ArchIdle
  /\ CallIdle
  /\ conf \in Confs
  /\ now = NewTs
  /\ localDir \in SUBSET OldTs
  /\ remote \in SUBSET OldTs
  /\ outFile = "absent"
  /\ runPc = "mkdir"
  /\ runRet = "none"
  /\ disk = <<>>
  /\ net = <<>>
  /\ uploadRet = "none"
  /\ lastPrune = NoPrune
  /\ prevOk = [local |-> FALSE, remote |-> FALSE]

RunNext ==
  \/ RunMkdir
  \/ RunCreateArchive
  \/ RunMoveFile
  \/ RunOpen
  \/ RunFileSystemCleanup
  \/ RunExportStart
  \/ RunUpload
  \/ RunRemotePrune

SpecRun == RunInit /\ [][RunNext]_vars

\* ------------------------------------------------------------ run: claims
\* C9 as claimed, for the runs with a valid configuration: whenever the run
\* has deleted a local archive or sent a remote delete request, Upload has
\* already returned success in that run.
C9_RetentionAfterUpload ==
  (/\ ValidateConfigValues(conf) = "nil"
   /\ \/ lastPrune.deleted # {}
      \/ \E i \in 1..Len(net) : net[i] = "delete") =>
    uploadRet = "nil"

\* C10 as claimed: when the run ends with the validation error, no disk or
\* network I/O has happened: no archive file was created, no local file was
\* deleted and no remote request was sent.
C10_ValidationBeforeIO ==
  runRet = "validation" =>
    /\ disk = <<>>
    /\ net = <<>>
    /\ outFile = "absent"
    /\ lastPrune.deleted = {}

\* The number of x in the sequence q that come after a y.
Count(q, x, y) ==
  Cardinality({i \in 1..Len(q) : q[i] = x /\ \E j \in 1..(i - 1) : q[j] = y})

\* The entries the last prune selected, in the order of its removals.
Selected ==
  IF lastPrune.store = "local"
    THEN LocalFilesToRemove(lastPrune.before, conf.BackupLimit)
    ELSE RemoteFilesToRemove(ListItemsInFolder(lastPrune.before, ListLimit, 0),
                             conf.BackupLimit)

\* C13: a prune, local or remote, that failed has made the run fail; what it
\* deleted is the selected entries before the failing one, they are gone from
\* the store, every other entry (the selected ones after the failing one
\* too) is still there, and no removal was attempted after the failing one.
C13_FailedPruneStops ==
  (lastPrune.store # "none" /\ ~lastPrune.ok) =>
    LET store == IF lastPrune.store = "local" THEN localDir ELSE remote
        k == Cardinality(lastPrune.deleted)
    IN /\ runRet \in {"err", "fatal"}
       /\ k <= Len(Selected)
       /\ lastPrune.deleted = {Selected[i] : i \in 1..k}
       /\ store = lastPrune.before \ lastPrune.deleted
       /\ (IF lastPrune.store = "local" THEN Count(disk, "remove", "glob")
                                         ELSE Count(net, "delete", "list")) <= k + 1

\* A local prune whose second removal failed, with a third entry selected.
C13_Witness ==
  /\ lastPrune.store = "local" /\ ~lastPrune.ok
  /\ lastPrune.deleted # {}
  /\ Len(Selected) > Cardinality(lastPrune.deleted) + 1
  /\ Selected[Len(Selected)] \in localDir

\* A remote prune whose first deletion failed, with a second entry selected.
C13_WitnessRemote ==
  /\ lastPrune.store = "remote" /\ ~lastPrune.ok
  /\ Len(Selected) > 1
  /\ Count(net, "delete", "list") = 1
  /\ Selected[2] \in remote

\* C25, as stated: in a run whose limit is zero or negative no prune selects
\* or deletes anything: no local file is removed, no listing and no delete
\* request is sent.
C25_NoRetentionBelowOne ==
  conf.BackupLimit <= 0 =>
    /\ lastPrune = NoPrune
    /\ Count(disk, "remove", "glob") = 0
    /\ \A i \in 1..Len(net) : net[i] \notin {"list", "delete"}

\* The half of C25 that holds: with such a limit the run never gets to the
\* remote prune, and sends no request at all.
C25_NoRemotePruneBelowOne ==
  conf.BackupLimit <= 0 => (net = <<>> /\ lastPrune.store # "remote")

\* C26, as stated: after a run with a limit of at least 1 in which every step
\* reported success, the archive the run made is in the output directory and
\* in the remote folder.
C26_NewArchiveKept ==
  (runRet = "nil" /\ conf.BackupLimit >= 1) =>
    (now \in localDir /\ now \in remote)

\* The half of C26 that holds: when every older name has as many digits as
\* the new one, such a run keeps the new archive in both stores.
C26_KeptAmongEqualWidths ==
  (/\ runRet = "nil" /\ conf.BackupLimit >= 1
   /\ \A t \in (localDir \cup remote \cup lastPrune.before) :
        Len(FormatInt(t)) = Len(FormatInt(now))) =>
    (now \in localDir /\ now \in remote)

\* C28, as stated: the output directory never holds a partly written archive
\* under the final name, also when moveFile fails midway.
C28_NoPartialFinal ==
  outFile # "partial"

\* The half of C28 that holds: the archive is opened for the upload, and
\* the directory listed for the local prune, only after moveFile has
\* written all of it and returned nil; the local prune may then remove it.
C28_ReadsAfterMove ==
  /\ runPc \in {"open", "cleanup"} => outFile = "complete"
  /\ runPc \in {"export", "upload", "prune"} => outFile \in {"complete", "absent"}
  /\ (lastPrune.store # "none" \/ net # <<>>) => outFile \in {"complete", "absent"}

\* -------------------------------------------------------- archive builder
MaxInputs == 2
MaxNodes == 3

\* What a name on disk is: a regular file, a file os.Open fails on, or a
\* directory with its children in ReadDir order. Its base name, read as a
\* pattern by filepath.Glob, is "plain" (no pattern character: it matches
\* itself), "star" (a name such as `*`, which matches every name of its
\* directory) or "class" (a name such as `[a]`, which matches no name of its
\* directory).
File == [kind |-> "file", kids |-> <<>>, meta |-> "plain"]
Unreadable == [kind |-> "unreadable", kids |-> <<>>, meta |-> "plain"]
Dir(k) == [kind |-> "dir", kids |-> k, meta |-> "plain"]

Metas == {"plain", "star", "class"}

\* The trees, and sequences of trees, of exactly n files and directories;
\* KidsOf are the sequences with every base name, for the children of a
\* directory, whose names addFilesToArchive is called with.
RECURSIVE TreesOf(_), ForestsOf(_), KidsOf(_)
TreesOf(n) ==
  (IF n = 1 THEN {File, Unreadable} ELSE {}) \cup {Dir(k) : k \in KidsOf(n - 1)}

ForestsOf(n) ==
  IF n = 0 THEN {<<>>}
  ELSE UNION {{<<t>> \o f : t \in TreesOf(s), f \in ForestsOf(n - s)} : s \in 1..n}

KidsOf(n) ==
  UNION {{[i \in 1..Len(f) |-> [f[i] EXCEPT !.meta = ms[i]]] :
            ms \in [1..Len(f) -> Metas]} : f \in ForestsOf(n)}

\* The lists of n patterns that match at most b files and directories in
\* all: a pattern is malformed (bad) or matches a sequence of names, which
\* may be empty.
RECURSIVE InputsOf(_, _)
InputsOf(n, b) ==
  IF n = 0 THEN {<<>>}
  ELSE {<<[bad |-> TRUE, matches |-> <<>>]>> \o rest : rest \in InputsOf(n - 1, b)}
       \cup UNION {{<<[bad |-> FALSE, matches |-> m]>> \o rest :
                      m \in ForestsOf(k), rest \in InputsOf(n - 1, b - k)} : k \in 0..b}

\* The patterns of one call of addFilesToArchive, each with the names it
\* matches: match j of the i-th configured pattern is named <<i, j>>.
TopPatterns(files) ==
  [i \in 1..Len(files) |->
     [bad |-> files[i].bad,
      matches |-> [j \in 1..Len(files[i].matches) |->
                     [name |-> <<i, j>>, node |-> files[i].matches[j]]]]]

\* The child k of a directory under its joined name.
Child(dir, k) == [name |-> Append(dir.name, k), node |-> dir.node.kids[k]]

\* dirFileNames of a directory: the joined name of each child, which the
\* recursive call hands to filepath.Glob as a pattern: what it matches
\* depends on the characters of the child's base name.
DirPatterns(dir) ==
  [k \in 1..Len(dir.node.kids) |->
     [bad |-> FALSE,
      matches |->
        IF dir.node.kids[k].meta = "plain" THEN <<Child(dir, k)>>
        ELSE IF dir.node.kids[k].meta = "star"
          THEN [j \in 1..Len(dir.node.kids) |-> Child(dir, j)]
        ELSE <<>>]]

\* filepath.Glob(filenameOrGlob)
Glob(pattern) ==
  IF pattern.bad THEN [err |-> "badpattern", filenames |-> <<>>]
  ELSE [err |-> "nil", filenames |-> pattern.matches]

\* One call of addFilesToArchive: the patterns still to glob and the
\* filenames of the current pattern still to add.
Frame(patterns) == [pats |-> patterns, names |-> <<>>]

\* return err, through every call of addFilesToArchive in progress.
ArchFail(e) ==
  /\ stack' = <<>>
  /\ archErr' = e
  /\ archPc' = "unwind"

\* A Write on the gzip writer: the gzip header goes to the file with the
\* first one; the compressor passes on what it holds now or later.
GzWrite(stream) ==
  \E now_ \in BOOLEAN :
    fileOut' = [header |-> TRUE,
                flushed |-> IF now_ THEN Len(stream) ELSE fileOut.flushed,
                trailer |-> FALSE]

\* The head of the pattern loop: Glob, its error, the not-found error.
ArchGlob ==
  /\ archPc = "run" /\ stack # <<>>
  /\ Head(stack).names = <<>> /\ Head(stack).pats # <<>>
  /\ LET g == Glob(Head(Head(stack).pats))
     IN IF g.err # "nil" THEN ArchFail(g.err)
        ELSE IF Len(g.filenames) <= 0 THEN ArchFail("notfound")
        ELSE /\ stack' = <<[pats |-> Tail(Head(stack).pats), names |-> g.filenames]>>
                           \o Tail(stack)
             /\ UNCHANGED <<archErr, archPc>>
  /\ UNCHANGED <<inputs, tarStream, fileOut, planVars, upVars, runVars, call>>

\* A filename os.Open (or Stat) fails on.
ArchOpenErr ==
  /\ archPc = "run" /\ stack # <<>>
  /\ Head(stack).names # <<>>
  /\ Head(Head(stack).names).node.kind = "unreadable"
  /\ ArchFail("open")
  /\ UNCHANGED <<inputs, tarStream, fileOut, planVars, upVars, runVars, call>>

\* A regular file: addToArchive writes its header and copies its bytes; the
\* copy may fail after the header.
ArchAddFile ==
  /\ archPc = "run" /\ stack # <<>>
  /\ Head(stack).names # <<>>
  /\ LET f == Head(Head(stack).names)
         hdr == Append(tarStream, <<"header", f.name>>)
     IN /\ f.node.kind = "file"
        /\ \/ /\ tarStream' = Append(hdr, <<"data", f.name>>)
              /\ GzWrite(tarStream')
              /\ stack' = <<[Head(stack) EXCEPT !.names = Tail(@)]>> \o Tail(stack)
              /\ UNCHANGED <<archErr, archPc>>
           \/ /\ tarStream' = hdr
              /\ GzWrite(tarStream')
              /\ ArchFail("copy")
  /\ UNCHANGED <<inputs, planVars, upVars, runVars, call>>

\* A directory: ReadDir, and the recursive call on its children when it has
\* some; nothing is written for the directory.
ArchDir ==
  /\ archPc = "run" /\ stack # <<>>
  /\ Head(stack).names # <<>>
  /\ LET d == Head(Head(stack).names)
         rest == <<[Head(stack) EXCEPT !.names = Tail(@)]>> \o Tail(stack)
     IN /\ d.node.kind = "dir"
        /\ stack' = IF Len(d.node.kids) > 0 THEN <<Frame(DirPatterns(d))>> \o rest
                    ELSE rest
  /\ UNCHANGED <<inputs, tarStream, fileOut, archPc, archErr, planVars, upVars,
                 runVars, call>>

\* return nil of a call of addFilesToArchive.
ArchReturn ==
  /\ archPc = "run" /\ stack # <<>>
  /\ Head(stack).names = <<>> /\ Head(stack).pats = <<>>
  /\ stack' = Tail(stack)
  /\ archPc' = IF Tail(stack) = <<>> THEN "unwind" ELSE "run"
  /\ UNCHANGED <<inputs, tarStream, fileOut, archErr, planVars, upVars, runVars, call>>

\* createArchive returns: the deferred tw.Close() writes the end of the tar
\* stream, the deferred gw.Close() the rest of the gzip stream; their errors
\* are dropped.
ArchClose ==
  /\ archPc = "unwind"
  /\ tarStream' = Append(tarStream, <<"end">>)
  /\ fileOut' = [header |-> TRUE, flushed |-> Len(tarStream'), trailer |-> TRUE]
  /\ archPc' = "returned"
  /\ UNCHANGED <<inputs, stack, archErr, planVars, upVars, runVars, call>>

ArchInit ==
  /\ inputs \in UNION {InputsOf(n, MaxNodes) : n \in 0..MaxInputs}
  /\ stack = <<Frame(TopPatterns(inputs))>>
  /\ tarStream = <<>>
  /\ fileOut = [header |-> FALSE, flushed |-> 0, trailer |-> FALSE]
  /\ archPc = "run"
  /\ archErr = "nil"
  /\ osShort = FALSE
  /\ planner = "ChunkFile"
  /\ file = <<>>
  /\ partSize = 1
  /\ PlanStart
  /\ planPc = "idle"
  /\ UpIdle
  /\ RunIdle
  /\ CallIdle

ArchNext ==
  \/ ArchGlob
  \/ ArchOpenErr
  \/ ArchAddFile
  \/ ArchDir
  \/ ArchReturn
  \/ ArchClose

SpecArchive == ArchInit /\ [][ArchNext]_vars

\* ------------------------------------------------ archive builder: claims
\* C11 as claimed: when archive building fails with the not-found error (a
\* pattern of the input list matched no file), no entry has been written to
\* the tar stream and no byte to the archive file at that moment.
C11_NotFoundWritesNothing ==
  (archPc = "unwind" /\ archErr = "notfound") =>
    (tarStream = <<>> /\ fileOut = [header |-> FALSE, flushed |-> 0, trailer |-> FALSE])

\* The half of C11 that holds: createArchive never returns nil for a list
\* with a well-formed pattern that matches nothing.
C11_NotFoundFails ==
  (archPc = "returned"
     /\ \E i \in 1..Len(inputs) : ~inputs[i].bad /\ inputs[i].matches = <<>>) =>
    archErr # "nil"

\* The names of the regular files under a name, depth first, the children of
\* a directory in ReadDir order.
RECURSIVE Walk(_, _), WalkKids(_, _, _)
Walk(name, node) ==
  IF node.kind = "dir" THEN WalkKids(name, node.kids, 1) ELSE <<name>>

WalkKids(name, kids, k) ==
  IF k > Len(kids) THEN <<>>
  ELSE Walk(Append(name, k), kids[k]) \o WalkKids(name, kids, k + 1)

\* The traversal of the inputs from match j of input i on.
RECURSIVE WalkInputs(_, _)
WalkInputs(i, j) ==
  IF i > Len(inputs) THEN <<>>
  ELSE IF j > Len(inputs[i].matches) THEN WalkInputs(i + 1, 1)
  ELSE Walk(<<i, j>>, inputs[i].matches[j]) \o WalkInputs(i, j + 1)

\* The tar stream of the files of the given names, in that order.
RECURSIVE TarOf(_)
TarOf(names) ==
  IF names = <<>> THEN <<>>
  ELSE <<<<"header", Head(names)>>, <<"data", Head(names)>>>> \o TarOf(Tail(names))

\* Whether a tree has a name with pattern characters in it.
RECURSIVE HasMeta(_)
HasMeta(node) ==
  node.meta # "plain" \/ \E k \in 1..Len(node.kids) : HasMeta(node.kids[k])

\* C27, as stated: an archive built without error holds, in traversal order
\* (inputs in order, matches in glob order, a directory's children depth
\* first in its place), one header and the data of each regular file reached
\* and nothing else: no entry for a directory, none for an empty one.
C27_TraversalOrder ==
  (archPc = "returned" /\ archErr = "nil") =>
    tarStream = TarOf(WalkInputs(1, 1)) \o <<<<"end">>>>

\* The half of C27 that holds: the same, for inputs under which no name has
\* a pattern character.
C27_PlainNamesInOrder ==
  (/\ archPc = "returned" /\ archErr = "nil"
   /\ \A i \in 1..Len(inputs) : \A j \in 1..Len(inputs[i].matches) :
        ~HasMeta(inputs[i].matches[j])) =>
    tarStream = TarOf(WalkInputs(1, 1)) \o <<<<"end">>>>

\* ------------------------------------------- the client's request methods
\* The methods of Client that send one request and hand the response to
\* handleResponse.
Ops ==
  {"SearchFolders", "ListItemsInFolder", "DeleteFile", "CreateBackupFolder",
   "CreateUploadSession", "GetUploadSession", "CommitUploadSession"}

\* Status codes on both sides of the two comparisons of handleResponse.
Statuses == {199, 200, 204, 299, 300, 404, 500}

CallResponses == [status : Statuses, body : Bodies]

\* c.httpClient.Do(req): a transport error, which the method returns, or a
\* response.
CallDo ==
  /\ call.pc = "do"
  /\ \/ call' = [call EXCEPT !.pc = "returned", !.ret = "err"]
     \/ \E resp \in CallResponses : call' = [call EXCEPT !.pc = "handle", !.resp = resp]
  /\ UNCHANGED <<planVars, upVars, runVars, archVars>>

\* err = c.handleResponse(rawResp, &resp), and the method returns it.
CallHandle ==
  /\ call.pc = "handle"
  /\ \E e \in HandleResponse(call.resp) :
       call' = [call EXCEPT !.pc = "returned", !.ret = e]
  /\ UNCHANGED <<planVars, upVars, runVars, archVars>>

CallInit ==
  /\ call \in [op : Ops, pc : {"do"}, resp : {NoResp}, ret : {"none"}]
  /\ osShort = FALSE
  /\ planner = "ChunkFile"
  /\ file = <<>>
  /\ partSize = 1
  /\ PlanStart
  /\ planPc = "idle"
  /\ UpIdle
  /\ RunIdle
  /\ ArchIdle

CallNext ==
  \/ CallDo
  \/ CallHandle

SpecCall == CallInit /\ [][CallNext]_vars

\* --------------------------------------------------- the client: claims
\* C14 as claimed: a method whose request was answered with a status outside
\* 200-299 returns an error, whatever the body is.
C14_ErrorStatusIsError ==
  (call.pc = "returned" /\ call.resp # NoResp /\ call.resp.status \notin 200..299) =>
    call.ret = "err"

\* The halves of C14 that hold: an error status whose body is one JSON
\* document, or none, is an error (also with an empty message field), and a
\* 2xx response is an error only when its body cannot be decoded.
C14_OneDocumentBody ==
  (call.pc = "returned" /\ call.resp # NoResp /\ call.resp.status \notin 200..299
     /\ Len(call.resp.body) <= 1) =>
    call.ret = "err"

C14_OkStatus ==
  (call.pc = "returned" /\ call.resp # NoResp /\ call.resp.status \in 200..299
     /\ call.ret = "err") =>
    (call.resp.status # 204 /\ Decode(call.resp.body) = "err")

====
